---- MODULE Spec2Model ----
(***************************************************************************)
(* A model of api_client.APIClient: construction (base URL resolution,    *)
(* token loading, session headers), the four verb wrappers and the        *)
(* response normalisation of _handle_response.                            *)
(*                                                                         *)
(* Text is modelled as a sequence of characters, so that rstrip, lstrip   *)
(* and strip work on it as the Python methods do.  A literal of the code  *)
(* is a one-element sequence holding the literal.                         *)
(***************************************************************************)
EXTENDS Integers, Sequences, FiniteSets, TLC

VARIABLES
  env,           \* API_BASE_URL in os.environ (api_client.py:26)
  fs,            \* the state of the file at the token path (:38-47)
  pc,            \* "start", then "ready" or "raised" after __init__ (:17-34);
                 \* "returned" while the caller holds a verb call's result
  arg_base_url,  \* the base_url argument __init__ was given (:17)
  token_file,    \* self.token_file (:25)
  base_url,      \* self.base_url (:26)
  token,         \* self.token (:27)
  headers,       \* self.session.headers (:28-34)
  call,          \* the last verb call: verb, endpoint, the URL and headers
                 \* handed to the session, the session's outcome (:58-61)
  ret            \* what the last call gave its caller (:62-64)

vars == <<env, fs, pc, arg_base_url, token_file, base_url, token, headers,
          call, ret>>

(* ------------------------------ bounds -------------------------------- *)

MaxUrlLen == 2

UrlChars == {"/", "a"}

SeqsUpTo(S, n) == UNION {[1..k -> S] : k \in 0..n}

(* --------------------------- Python values ---------------------------- *)

PyNone == [t |-> "None", v |-> <<>>]

PyStr(s) == [t |-> "str", v |-> s]

PyInt(i) == [t |-> "int", v |-> i]

PyList(l) == [t |-> "list", v |-> l]

PyDict(d) == [t |-> "dict", v |-> d]

EmptyDict == <<>>

\* Python truth value of x, as "x or y" and "if x:" test it
Truthy(x) ==
  CASE x.t = "None" -> FALSE
    [] x.t = "str"  -> x.v # <<>>
    [] x.t = "int"  -> x.v # 0
    [] x.t = "list" -> x.v # <<>>
    [] x.t = "dict" -> DOMAIN x.v # {}

\* x or y
PyOr(x, y) == IF Truthy(x) THEN x ELSE y

\* d.get(key, default) on a dict
DictGet(d, key, default) == IF key \in DOMAIN d THEN d[key] ELSE default

\* d.update(other) on a dict
DictUpdate(d, other) ==
  [k \in DOMAIN d \cup DOMAIN other |-> IF k \in DOMAIN other THEN other[k] ELSE d[k]]

\* the two outcomes of a call
Return(value) == [kind |-> "return", value |-> value]

Raise(exc, msg) == [kind |-> "raise", exc |-> exc, msg |-> msg]

(* --------------------------- string methods --------------------------- *)

Whitespace == {" ", "\t", "\n"}

RECURSIVE rstrip(_, _)
rstrip(s, chars) ==
  IF s # <<>> /\ s[Len(s)] \in chars
  THEN rstrip(SubSeq(s, 1, Len(s) - 1), chars)
  ELSE s

RECURSIVE lstrip(_, _)
lstrip(s, chars) ==
  IF s # <<>> /\ s[1] \in chars
  THEN lstrip(Tail(s), chars)
  ELSE s

strip(s) == lstrip(rstrip(s, Whitespace), Whitespace)

Digit(d) ==
  CASE d = 0 -> "0" [] d = 1 -> "1" [] d = 2 -> "2" [] d = 3 -> "3"
    [] d = 4 -> "4" [] d = 5 -> "5" [] d = 6 -> "6" [] d = 7 -> "7"
    [] d = 8 -> "8" [] d = 9 -> "9"

\* str(n) of a natural number, as an f-string formats it
RECURSIVE Str(_)
Str(n) == IF n < 10 THEN <<Digit(n)>> ELSE Str(n \div 10) \o <<Digit(n % 10)>>

(* ------------------------- exception classes -------------------------- *)

\* the direct base classes of the exception classes the client meets
Bases(cls) ==
  CASE cls = "RequestException"          -> {"OSError"}
    [] cls = "ConnectionError"           -> {"RequestException"}
    [] cls = "SSLError"                  -> {"ConnectionError"}
    [] cls = "Timeout"                   -> {"RequestException"}
    [] cls = "ConnectTimeout"            -> {"ConnectionError", "Timeout"}
    [] cls = "ReadTimeout"               -> {"Timeout"}
    [] cls = "InvalidJSONError"          -> {"RequestException"}
    [] cls = "requests.JSONDecodeError"  -> {"InvalidJSONError", "json.JSONDecodeError"}
    [] cls = "json.JSONDecodeError"      -> {"ValueError"}
    [] cls = "AttributeError"            -> {"Exception"}
    [] cls = "ValueError"                -> {"Exception"}
    [] cls = "PermissionError"           -> {"OSError"}
    [] cls = "OSError"                   -> {"Exception"}
    [] OTHER                             -> {}

RECURSIVE IsSubclass(_, _)
IsSubclass(cls, base) ==
  cls = base \/ \E b \in Bases(cls) : IsSubclass(b, base)

(* ------------------------------ inputs -------------------------------- *)

\* what the token file may hold: nothing, white space only, a token, a token
\* with white space around it, a token with white space inside it
FileContents ==
  {<<>>, <<" ">>, <<"t">>, <<" ", "t", "\n">>, <<"t", " ", "t">>}

\* the states of the file at the token path: no such file, a path whose
\* stat() fails, a file that exists and cannot be opened, a readable file
FileStates ==
  {[kind |-> k, data |-> <<>>] : k \in {"missing", "inaccessible", "unreadable"}}
    \cup {[kind |-> "file", data |-> d] : d \in FileContents}

\* os.environ's API_BASE_URL: unset (None), or a string
EnvValues == {PyNone, PyStr(<<"e">>)}

\* the base_url argument: omitted (None), or a string
BaseUrlArgs == {PyNone} \cup {PyStr(u) : u \in SeqsUpTo(UrlChars, MaxUrlLen)}

Endpoints == SeqsUpTo(UrlChars, MaxUrlLen)

\* the statuses on both sides of the comparison with 400
StatusCodes == {399, 400}

\* the bodies that decode as a JSON object: a message field that is missing,
\* null, empty or a text, and possibly an error field
JsonObjects ==
  {EmptyDict,
   "message" :> PyNone,
   "message" :> PyStr(<<>>),
   "message" :> PyStr(<<"Not found">>),
   "error" :> PyStr(<<"x">>)}

\* what a body decodes to when it is JSON: object, array, scalar, null
JsonValues ==
  {PyDict(d) : d \in JsonObjects}
    \cup {PyList(<<PyInt(1)>>), PyInt(1), PyNone}

\* the raw text of a body that is not JSON
PlainTexts == {<<>>, <<"Plain text response">>}

JsonResponse(s, j) ==
  [status_code |-> s, is_json |-> TRUE, json |-> j, text |-> <<"json">>]

TextResponse(s, x) ==
  [status_code |-> s, is_json |-> FALSE, json |-> PyNone, text |-> x]

\* the responses the test suite mocks
TestResponses ==
  {JsonResponse(200, PyDict("status" :> PyStr(<<"success">>))),
   JsonResponse(404, PyDict("message" :> PyStr(<<"Not found">>))),
   TextResponse(200, <<"Plain text response">>)}

Responses ==
  {JsonResponse(s, j) : s \in StatusCodes, j \in JsonValues}
    \cup {TextResponse(s, x) : s \in StatusCodes, x \in PlainTexts}
    \cup TestResponses

\* the failures of the transport: refused connection and DNS failure, TLS
\* failure, timeouts
TransportFailures ==
  {Raise(c, <<c>>) : c \in {"ConnectionError", "SSLError", "ReadTimeout"}}

\* what session.get/post/put/delete does: it returns a response or raises
Outcomes == {Return(r) : r \in Responses} \cup TransportFailures

(* --------------------------- construction ----------------------------- *)

\* Path.exists(): stat() fails with an errno that pathlib does not ignore on
\* an inaccessible path, and exists() re-raises it or answers False
\* depending on the interpreter (statRaises)
PathExists(file, statRaises) ==
  CASE file.kind = "missing"      -> Return(FALSE)
    [] file.kind = "inaccessible" -> IF statRaises
                                     THEN Raise("PermissionError", <<"stat">>)
                                     ELSE Return(FALSE)
    [] OTHER                      -> Return(TRUE)

\* open(token_path, 'r') and f.read()
ReadFile(file) ==
  IF file.kind = "file" THEN Return(file.data) ELSE Raise("OSError", <<"open">>)

\* APIClient._load_token
LoadToken(file, statRaises) ==
  LET ex == PathExists(file, statRaises)
      rd == ReadFile(file)
  IN  IF ex.kind = "raise" THEN ex
      ELSE IF ~ex.value THEN Return(PyNone)
      ELSE IF rd.kind = "raise"
           THEN IF IsSubclass(rd.exc, "Exception") THEN Return(PyNone) ELSE rd
      ELSE IF strip(rd.value) = <<>> THEN Return(PyNone)
      ELSE Return(PyStr(strip(rd.value)))

\* ResolveBaseUrl with the environment consulted first
ResolveBaseUrlEnvFirst(arg, environ) ==
  IF Truthy(environ) THEN environ ELSE PyOr(arg, PyStr(<<>>))

\* base_url or os.getenv('API_BASE_URL', '')
ResolveBaseUrl(arg, environ) ==
  PyOr(arg, IF environ = PyNone THEN PyStr(<<>>) ELSE environ)

\* the default headers of a new requests.Session()
DefaultHeaders ==
  [k \in {"User-Agent", "Accept-Encoding", "Accept", "Connection"} |-> <<k>>]

\* SessionHeaders with the update done whether or not a token was loaded
SessionHeadersAlways(tok) ==
  DictUpdate(DefaultHeaders,
             ("Authorization" :> (<<"Bearer ">> \o (IF tok.t = "str" THEN tok.v ELSE <<"None">>)))
               @@ ("Content-Type" :> <<"application/json">>))

\* the session's headers after __init__
SessionHeaders(tok) ==
  IF Truthy(tok)
  THEN DictUpdate(DefaultHeaders,
                  ("Authorization" :> (<<"Bearer ">> \o tok.v))
                    @@ ("Content-Type" :> <<"application/json">>))
  ELSE DefaultHeaders

(* ------------------------ response normalisation ---------------------- *)

\* response.json()
ResponseJson(response) ==
  IF response.is_json
  THEN Return(response.json)
  ELSE Raise("requests.JSONDecodeError", <<"Expecting value">>)

\* json_response.get('message', 'Unknown error')
GetMessage(json_response) ==
  IF json_response.t = "dict"
  THEN Return(DictGet(json_response.v, "message", PyStr(<<"Unknown error">>)))
  ELSE Raise("AttributeError", <<"get">>)

\* f'HTTP {response.status_code}'
HttpError(response) == PyStr(<<"HTTP ">> \o Str(response.status_code))

\* IsErrorStatus with 400 itself left out
IsErrorStatusAbove400(status_code) == status_code > 400

\* IsErrorStatus with every status outside 200..299 taken as an error
IsErrorStatusNon2xx(status_code) == status_code < 200 \/ status_code >= 300

\* the comparison that separates an error status
IsErrorStatus(status_code) == status_code >= 400

\* APIClient._handle_response
HandleResponse(response) ==
  LET j == ResponseJson(response)
  IN  IF j.kind = "return"
      THEN IF IsErrorStatus(response.status_code)
           THEN LET m == GetMessage(j.value)
                IN  IF m.kind = "raise" THEN m
                    ELSE Return(PyDict(("error" :> HttpError(response))
                                         @@ ("message" :> m.value)
                                         @@ ("details" :> j.value)))
           ELSE Return(j.value)
      ELSE IF IsSubclass(j.exc, "json.JSONDecodeError")
           THEN IF IsErrorStatus(response.status_code)
                THEN Return(PyDict(("error" :> HttpError(response))
                                     @@ ("message" :>
                                           PyOr(PyStr(response.text),
                                                PyStr(<<"Unknown error">>)))))
                ELSE Return(PyDict("content" :> PyStr(response.text)))
           ELSE j

(* ------------------------------- verbs -------------------------------- *)

\* BuildUrl with at most one slash removed on each side
BuildUrlStripOne(base, endpoint) ==
  (IF base # <<>> /\ base[Len(base)] = "/" THEN SubSeq(base, 1, Len(base) - 1) ELSE base)
    \o <<"/">>
    \o (IF endpoint # <<>> /\ endpoint[1] = "/" THEN Tail(endpoint) ELSE endpoint)

\* f"{self.base_url.rstrip('/')}/{endpoint.lstrip('/')}"
BuildUrl(base, endpoint) == rstrip(base, {"/"}) \o <<"/">> \o lstrip(endpoint, {"/"})

\* Caught with an except clause that names ConnectionError only
CaughtConnectionErrorOnly(exc) == IsSubclass(exc, "ConnectionError")

\* the class the verbs' except clause names
Caught(exc) == IsSubclass(exc, "RequestException")

\* the body of get/post/put/delete after the URL is built: the try block
\* around the transport call and _handle_response, and its except clause
Request(outcome) ==
  LET r == IF outcome.kind = "raise" THEN outcome ELSE HandleResponse(outcome.value)
  IN  IF r.kind = "raise" /\ Caught(r.exc)
      THEN Return(PyDict("error" :> PyStr(<<"Request failed: ">> \o r.msg)))
      ELSE r

NoCall == [verb |-> "none"]

NoRet == [kind |-> "none"]

Init ==
  /\ env \in EnvValues
  /\ fs \in FileStates
  /\ pc = "start"
  /\ arg_base_url = PyNone
  /\ token_file = <<>>
  /\ base_url = <<>>
  /\ token = PyNone
  /\ headers = EmptyDict
  /\ call = NoCall
  /\ ret = NoRet

\* APIClient.__init__(token_file="token.txt", base_url=arg)
Construct ==
  /\ pc = "start"
  /\ \E arg \in BaseUrlArgs, statRaises \in BOOLEAN :
       LET t == LoadToken(fs, statRaises)
       IN  /\ arg_base_url' = arg
           /\ token_file' = <<"token.txt">>
           /\ base_url' = ResolveBaseUrl(arg, env).v
           /\ IF t.kind = "raise"
              THEN /\ pc' = "raised"
                   /\ ret' = t
                   /\ UNCHANGED <<token, headers>>
              ELSE /\ pc' = "ready"
                   /\ token' = t.value
                   /\ headers' = SessionHeaders(t.value)
                   /\ UNCHANGED ret
  /\ UNCHANGED <<env, fs, call>>

\* Verb with the token loaded again from the file on every call
VerbReloadsToken(verb, endpoint, outcome) ==
  /\ pc = "ready"
  /\ pc' = "returned"
  /\ token' = LoadToken(fs, FALSE).value
  /\ headers' = SessionHeaders(token')
  /\ call' = [verb |-> verb, endpoint |-> endpoint,
              url |-> BuildUrl(base_url, endpoint),
              sent_headers |-> headers', outcome |-> outcome]
  /\ ret' = Request(outcome)
  /\ UNCHANGED <<env, fs, arg_base_url, token_file, base_url>>

\* one verb call, from the caller's call to the handler's return or raise:
\* the URL is built, the session's method is called with it and the session's
\* headers, and the outcome is normalised.  params, data and json_data go to
\* the session as given and reach nothing the client keeps or returns.
Verb(verb, endpoint, outcome) ==
  /\ pc = "ready"
  /\ pc' = "returned"
  /\ call' = [verb |-> verb, endpoint |-> endpoint,
              url |-> BuildUrl(base_url, endpoint),
              sent_headers |-> headers, outcome |-> outcome]
  /\ ret' = Request(outcome)
  /\ UNCHANGED <<env, fs, arg_base_url, token_file, base_url, token, headers>>

get == \E e \in Endpoints, o \in Outcomes : Verb("get", e, o)

post == \E e \in Endpoints, o \in Outcomes : Verb("post", e, o)

put == \E e \in Endpoints, o \in Outcomes : Verb("put", e, o)

delete == \E e \in Endpoints, o \in Outcomes : Verb("delete", e, o)

\* the caller has looked at what the call gave and goes on with the client
Continue ==
  /\ pc = "returned"
  /\ pc' = "ready"
  /\ call' = NoCall
  /\ ret' = NoRet
  /\ UNCHANGED <<env, fs, arg_base_url, token_file, base_url, token, headers>>

\* the environment rewrites, removes or locks the token file
ChangeTokenFile ==
  /\ \E f \in FileStates : fs' = f /\ f # fs
  /\ UNCHANGED <<env, pc, arg_base_url, token_file, base_url, token, headers, call, ret>>

Next == Construct \/ get \/ post \/ put \/ delete \/ Continue \/ ChangeTokenFile

Spec == Init /\ [][Next]_vars

(* ------------------------------ claims -------------------------------- *)

Constructed == pc \in {"ready", "returned"}

Returned == pc = "returned"

GotResponse == Returned /\ call.outcome.kind = "return"

TransportRaised == Returned /\ call.outcome.kind = "raise"

Response == call.outcome.value

IsMapping(r) == r.kind = "return" /\ r.value.t = "dict"

HasErrorKey(r) == IsMapping(r) /\ "error" \in DOMAIN r.value.v

AllSlashes(s) == \A i \in 1..Len(s) : s[i] = "/"

\* C1: when the transport call of get, post, put or delete raises a failure
\* of the request (refused connection, DNS, TLS, timeout), on a client with
\* or without a token, the call returns {error: "Request failed: <description>"}
\* and raises nothing.
C1_TransportFailureBecomesErrorMapping ==
  TransportRaised =>
    /\ ret.kind = "return"
    /\ ret.value = PyDict("error" :> PyStr(<<"Request failed: ">> \o call.outcome.msg))

C1_Witness ==
  /\ TransportRaised
  /\ call.verb = "post"
  /\ call.outcome.exc = "ReadTimeout"
  /\ token = PyNone
  /\ ret.kind = "return"

\* C2: for every response the transport returns (any status; a body that is
\* a JSON object, array, scalar or null, or no JSON), the verb call returns
\* a single mapping and raises nothing.
C2_AlwaysAMapping ==
  GotResponse => IsMapping(ret)

\* C3: the URL passed to the transport is the base URL without its trailing
\* slashes, then exactly one "/", then the endpoint without its leading
\* slashes, for every base URL and endpoint (empty and all-slash ones too).
C3_UrlJoinedWithOneSlash ==
  Returned =>
    \E i \in 0..Len(base_url), j \in 0..Len(call.endpoint) :
      /\ AllSlashes(SubSeq(base_url, i + 1, Len(base_url)))
      /\ i = 0 \/ base_url[i] # "/"
      /\ AllSlashes(SubSeq(call.endpoint, 1, j))
      /\ j = Len(call.endpoint) \/ call.endpoint[j + 1] # "/"
      /\ call.url = SubSeq(base_url, 1, i) \o <<"/">>
                      \o SubSeq(call.endpoint, j + 1, Len(call.endpoint))

C3_Witness ==
  /\ Returned
  /\ call.verb = "delete"
  /\ base_url = <<"/", "/">>
  /\ call.endpoint = <<"/", "a">>
  /\ call.url = <<"/", "a">>

\* the message the claim C4 expects: the body's message field when it has a
\* usable one, "Unknown error" when the field is missing, null or empty
C4_Message(json) ==
  IF json.t = "dict" /\ "message" \in DOMAIN json.v /\ Truthy(json.v["message"])
  THEN json.v["message"]
  ELSE PyStr(<<"Unknown error">>)

\* C4: for every response whose body decodes as JSON and whose status is
\* >= 400, the verb call returns exactly {error: "HTTP <status>", message: M,
\* details: <decoded body>}, M being the body's message field when it has a
\* usable value and "Unknown error" when it is missing, null or empty.
C4_ErrorShape ==
  (GotResponse /\ Response.is_json /\ Response.status_code >= 400) =>
    ret = Return(PyDict(("error" :> PyStr(<<"HTTP ">> \o Str(Response.status_code)))
                          @@ ("message" :> C4_Message(Response.json))
                          @@ ("details" :> Response.json)))

\* C5: for every response with status < 400, a body that decodes as JSON is
\* returned unchanged, and a body that does not is returned as
\* {content: <raw text>}.
C5_SuccessPassThrough ==
  (GotResponse /\ Response.status_code < 400) =>
    IF Response.is_json
    THEN ret = [kind |-> "return", value |-> Response.json]
    ELSE ret = [kind |-> "return",
                value |-> PyDict("content" :> PyStr(Response.text))]

C5_Witness ==
  /\ GotResponse
  /\ Response.status_code = 399
  /\ ~Response.is_json
  /\ Response.text = <<"Plain text response">>
  /\ ret.kind = "return"
  /\ DOMAIN ret.value.v = {"content"}

\* C6: constructing a client never raises, whatever the state of the token
\* file: the token is None exactly when the file does not exist, cannot be
\* read or holds only white space, and is the trimmed contents otherwise;
\* the base URL given to the constructor is preserved.
C6_ConstructionFailsSoft ==
  [][(pc = "start" /\ pc' # "start") =>
       /\ pc' = "ready"
       /\ token' = IF fs.kind # "file" \/ \A i \in 1..Len(fs.data) : fs.data[i] \in Whitespace
                   THEN PyNone
                   ELSE PyStr(strip(fs.data))
       /\ arg_base_url' # PyNone => base_url' = arg_base_url'.v]_vars

\* C7: at every point after construction the session's headers hold
\* Authorization = "Bearer <token>" and Content-Type = "application/json"
\* if and only if a token was loaded; without a token there is no
\* Authorization header, and a verb call still goes to the transport and
\* gives what the transport's outcome gives.
C7_AuthHeadersIffToken ==
  Constructed =>
    /\ (/\ "Authorization" \in DOMAIN headers
        /\ "Content-Type" \in DOMAIN headers
        /\ headers["Authorization"] = <<"Bearer ">> \o token.v
        /\ headers["Content-Type"] = <<"application/json">>)
         <=> token # PyNone
    /\ token = PyNone => "Authorization" \notin DOMAIN headers
    /\ (Returned /\ token = PyNone) =>
         /\ call.verb \in {"get", "post", "put", "delete"}
         /\ "Authorization" \notin DOMAIN call.sent_headers
         /\ (call.outcome.kind = "return" /\ Response.is_json
               /\ Response.status_code < 400) => ret = Return(Response.json)

C7_Witness ==
  /\ Returned
  /\ token = PyNone
  /\ call.verb = "get"
  /\ call.outcome.kind = "return"
  /\ Response.status_code = 200
  /\ ret = Return(PyDict("status" :> PyStr(<<"success">>)))

\* C8, as claimed: the base URL is the constructor argument whenever one is
\* provided, the empty string included, else API_BASE_URL when set, else "".
C8_ExplicitArgumentAlwaysWins ==
  Constructed =>
    base_url = IF arg_base_url # PyNone THEN arg_base_url.v
               ELSE IF env # PyNone THEN env.v
               ELSE <<>>

\* C8, amended: the base URL is the constructor argument whenever a
\* non-empty one is provided; when it is omitted or empty, the base URL is
\* API_BASE_URL when that is set, and the empty string otherwise.
C8_NonEmptyArgumentWins ==
  Constructed =>
    base_url = IF arg_base_url # PyNone /\ arg_base_url.v # <<>> THEN arg_base_url.v
               ELSE IF env # PyNone THEN env.v
               ELSE <<>>

C8_Witness ==
  /\ pc = "ready"
  /\ arg_base_url = PyStr(<<>>)
  /\ env = PyStr(<<"e">>)
  /\ base_url = <<"e">>

\* C9: no step after construction (a verb call with any outcome, a change
\* or removal of the token file) changes the client's token, token file
\* path, base URL or session headers.
C9_ConfigurationFrozen ==
  [][Constructed =>
       /\ token' = token
       /\ token_file' = token_file
       /\ base_url' = base_url
       /\ headers' = headers]_vars

C9_Witness ==
  /\ Returned
  /\ fs.kind = "missing"
  /\ token = PyStr(<<"t">>)
  /\ headers["Authorization"] = <<"Bearer ", "t">>
  /\ call.outcome.kind = "raise"

Failed == TransportRaised \/ (GotResponse /\ Response.status_code >= 400)

\* C10, as claimed: the result of a verb call contains the key "error" if
\* and only if the call failed (the transport raised or the status was
\* >= 400).
C10_ErrorKeyIffFailed ==
  Returned => (HasErrorKey(ret) <=> Failed)

\* C10, amended: the result of a verb call contains the key "error" exactly
\* when the transport raised, or the status was >= 400 and the body was no
\* JSON or a JSON object, or the status was < 400 and the body was a JSON
\* object that has an "error" field of its own.
C10_ErrorKeyCases ==
  Returned =>
    (HasErrorKey(ret) <=>
       \/ TransportRaised
       \/ /\ GotResponse
          /\ Response.status_code >= 400
          /\ ~Response.is_json \/ Response.json.t = "dict"
       \/ /\ GotResponse
          /\ Response.status_code < 400
          /\ Response.is_json
          /\ Response.json.t = "dict"
          /\ "error" \in DOMAIN Response.json.v)

C10_Witness ==
  /\ GotResponse
  /\ Response.status_code = 399
  /\ Response.is_json
  /\ Response.json = PyDict("error" :> PyStr(<<"x">>))
  /\ HasErrorKey(ret)

====
